---- MODULE Spec2Model ----
(***************************************************************************)
(* Model of the natural-deduction proof checker of parser.py: the          *)
(* expression classes, References, ProofLine, Goal and the Proof           *)
(* controller with its eleven can_add_* rule predicates.                   *)
(*                                                                         *)
(* Python lists are 0-indexed; a Python list `xs` is the TLA+ sequence xs  *)
(* with xs[i] (Python) = xs[i + 1] (TLA+).  A call that raises leaves the  *)
(* Proof untouched and is recorded in `result` by the exception's name.    *)
(*                                                                         *)
(* A Python string is the sequence of its characters.  `text` is the       *)
(* string last given to parseExpr, `parsed` what that call produced and    *)
(* `expr` the Expression the string was rendered from, if it was.          *)
(***************************************************************************)
EXTENDS Integers, Sequences, FiniteSets, TLC

VARIABLES lines, assumption_map, goal, result, called, expr, text, parsed

vars == <<lines, assumption_map, goal, result, called, expr, text, parsed>>

(***************************************************************************)
(* Expression classes.  An expression is a record whose cls field is the   *)
(* name of its Python class.                                               *)
(***************************************************************************)
Atom(name) == [cls |-> "Atom", name |-> name]

Contr == [cls |-> "Contr", name |-> "bottom"]

NotExpr(content) == [cls |-> "NotExpr", content |-> content]

OrExpr(left, right) == [cls |-> "OrExpr", left |-> left, right |-> right]

AndExpr(left, right) == [cls |-> "AndExpr", left |-> left, right |-> right]

ImpExpr(left, right) == [cls |-> "ImpExpr", left |-> left, right |-> right]

BinaryClasses == {"OrExpr", "AndExpr", "ImpExpr"}

\* isinstance(e, c) for the class hierarchy Contr < Atom, Or/And/Imp < BinaryExpr
isinstance(e, c) ==
    \/ e.cls = c
    \/ c = "Atom" /\ e.cls = "Contr"
    \/ c = "BinaryExpr" /\ e.cls \in BinaryClasses

\* a == b as Python evaluates it through the classes' __eq__ methods.  When
\* the right operand's class is a proper subclass of the left one's (Contr
\* under Atom) Python asks the right operand first.
RECURSIVE ExprEq(_, _)
ExprEq(a, b) ==
    IF a.cls = "Contr" THEN isinstance(b, "Contr")
    ELSE IF a.cls = "Atom"
         THEN IF b.cls = "Contr" THEN FALSE
              ELSE isinstance(b, "Atom") /\ a.name = b.name
    ELSE IF a.cls = "NotExpr"
         THEN isinstance(b, "NotExpr") /\ ExprEq(a.content, b.content)
    ELSE a.cls = b.cls /\ ExprEq(a.left, b.left) /\ ExprEq(a.right, b.right)

(***************************************************************************)
(* References: discharge is None, "v" (vacuous) or an assumption index.    *)
(***************************************************************************)
None == [kind |-> "None", index |-> 0]

Vacuous == [kind |-> "v", index |-> 0]

Index(i) == [kind |-> "int", index |-> i]

Reference(line_no, discharge) == [line_no |-> line_no, discharge |-> discharge]

Rule == {"ASSUMPTION", "AND_ELIM", "AND_INTRO", "DNE", "NOT_ELIM", "NOT_INTRO",
         "OR_INTRO", "OR_ELIM", "IMPLIES_INTRO", "IMPLIES_ELIM", "RAA"}

ProofLine(assumptions, content, references, rule_used) ==
    [assumptions |-> assumptions, content |-> content,
     references |-> references, rule_used |-> rule_used]

Goal(assumptions, amap, content) ==
    [assumptions |-> assumptions, assumption_map |-> amap, content |-> content]

(***************************************************************************)
(* List indexing as Python does it for the indices the model draws         *)
(* (naturals): an index at or past the end raises IndexError.              *)
(***************************************************************************)
InRange(xs, i) == i >= 0 /\ i < Len(xs)

At(xs, i) == xs[i + 1]

Bool(b) == IF b THEN "True" ELSE "False"

(***************************************************************************)
(* The rule predicates.  Each yields "True", "False", or the name of the   *)
(* exception the Python code raises: "IndexError" when it indexes          *)
(* self.lines or self.assumption_map out of range, "TypeError" when it     *)
(* indexes self.assumption_map by None.                                    *)
(***************************************************************************)
\* can_add_assumption accepting any singleton, not only the next fresh index
can_add_assumption_any_index(line) ==
    IF Cardinality(line.assumptions) # 1 THEN "False"
    ELSE Bool(Len(line.references) = 0)

can_add_assumption(line) ==
    LET correct_assumptions ==
            /\ Cardinality(line.assumptions) = 1
            /\ line.assumptions = {Len(assumption_map)}
    IN  IF ~correct_assumptions THEN "False"
        ELSE Bool(Len(line.references) = 0)

\* can_add_and_elim matching the left conjunct only
can_add_and_elim_left_only(line) ==
    LET correct_references ==
            /\ Len(line.references) = 1
            /\ line.references[1].discharge = None
    IN  IF ~correct_references THEN "False"
        ELSE LET reference == line.references[1].line_no
             IN  IF ~InRange(lines, reference) THEN "IndexError"
                 ELSE IF line.assumptions # At(lines, reference).assumptions THEN "False"
                 ELSE LET referenced == At(lines, reference).content
                      IN  IF ~isinstance(referenced, "AndExpr") THEN "False"
                          ELSE Bool(ExprEq(line.content, referenced.left))

can_add_and_elim(line) ==
    LET correct_references ==
            /\ Len(line.references) = 1
            /\ line.references[1].discharge = None
    IN  IF ~correct_references THEN "False"
        ELSE LET reference == line.references[1].line_no
             IN  IF ~InRange(lines, reference) THEN "IndexError"
                 ELSE IF line.assumptions # At(lines, reference).assumptions THEN "False"
                 ELSE LET referenced == At(lines, reference).content
                      IN  IF ~isinstance(referenced, "AndExpr") THEN "False"
                          ELSE Bool(\/ ExprEq(line.content, referenced.left)
                                    \/ ExprEq(line.content, referenced.right))

can_add_and_intro(line) ==
    IF ~isinstance(line.content, "AndExpr") THEN "False"
    ELSE
    LET correct_references ==
            /\ Len(line.references) = 2
            /\ \A i \in 1..2 : line.references[i].discharge = None
    IN  IF ~correct_references THEN "False"
        ELSE LET reference1 == line.references[1]
                 reference2 == line.references[2]
             IN  IF ~InRange(lines, reference1.line_no) \/ ~InRange(lines, reference2.line_no)
                 THEN "IndexError"
                 ELSE IF line.assumptions #
                            At(lines, reference1.line_no).assumptions
                                \cup At(lines, reference2.line_no).assumptions
                 THEN "False"
                 ELSE LET referenced_content1 == At(lines, reference1.line_no).content
                          referenced_content2 == At(lines, reference2.line_no).content
                      IN  Bool(/\ ExprEq(line.content.left, referenced_content1)
                               /\ ExprEq(line.content.right, referenced_content2))

can_add_dne(line) ==
    LET correct_references ==
            /\ Len(line.references) = 1
            /\ line.references[1].discharge = None
    IN  IF ~correct_references THEN "False"
        ELSE LET reference == line.references[1].line_no
             IN  IF ~InRange(lines, reference) THEN "IndexError"
                 ELSE LET referenced == At(lines, reference)
                          referenced_content == referenced.content
                      IN  IF line.assumptions # referenced.assumptions THEN "False"
                          ELSE IF ~isinstance(referenced_content, "NotExpr") THEN "False"
                          ELSE IF ~isinstance(referenced_content.content, "NotExpr") THEN "False"
                          ELSE Bool(ExprEq(referenced_content.content.content, line.content))

can_add_not_elim(line) ==
    LET correct_references ==
            /\ Len(line.references) = 2
            /\ \A i \in 1..2 : line.references[i].discharge = None
    IN  IF ~correct_references THEN "False"
        ELSE IF \/ ~InRange(lines, line.references[1].line_no)
                \/ ~InRange(lines, line.references[2].line_no)
        THEN "IndexError"
        ELSE LET reference1 == At(lines, line.references[1].line_no)
                 reference2 == At(lines, line.references[2].line_no)
                 referenced1 == reference1.content
                 referenced2 == reference2.content
             IN  IF line.assumptions # reference1.assumptions \cup reference2.assumptions
                 THEN "False"
                 ELSE Bool(/\ \/ /\ isinstance(referenced1, "NotExpr")
                                 /\ ExprEq(referenced1.content, referenced2)
                              \/ /\ isinstance(referenced2, "NotExpr")
                                 /\ ExprEq(referenced1, referenced2.content)
                           /\ ExprEq(line.content, Contr))

can_add_not_intro(line) ==
    IF Len(line.references) # 1 THEN "False"
    ELSE
    LET line_reference == line.references[1]
        discharge == line_reference.discharge
    IN  IF discharge = None THEN "False"
        ELSE IF ~InRange(lines, line_reference.line_no) THEN "IndexError"
        ELSE LET referenced == At(lines, line_reference.line_no)
                 correct_assumptions ==
                     IF discharge = Vacuous
                     THEN line.assumptions = referenced.assumptions
                     ELSE /\ line.assumptions \cup {discharge.index} = referenced.assumptions
                          /\ Cardinality(line.assumptions) < Cardinality(referenced.assumptions)
             IN  IF ~ExprEq(referenced.content, Contr) THEN "False"
                 ELSE IF ~correct_assumptions THEN "False"
                 ELSE IF ~isinstance(line.content, "NotExpr") THEN "False"
                 ELSE IF discharge = Vacuous THEN "True"
                 ELSE IF ~InRange(assumption_map, discharge.index) THEN "IndexError"
                 ELSE Bool(ExprEq(line.content.content, At(assumption_map, discharge.index)))

\* line.assumptions == self.lines[reference.line_no] compares a set with a
\* ProofLine object: neither class answers the comparison, so Python falls
\* back to identity and the result is False for every set.
SetEqProofLine(assumptions, proof_line) == FALSE

can_add_or_intro(line) ==
    IF ~isinstance(line.content, "OrExpr") THEN "False"
    ELSE
    LET correct_references ==
            /\ Len(line.references) = 1
            /\ line.references[1].discharge = None
    IN  IF ~correct_references THEN "False"
        ELSE LET reference == line.references[1]
             IN  IF ~InRange(lines, reference.line_no) THEN "IndexError"
                 ELSE IF ~SetEqProofLine(line.assumptions, At(lines, reference.line_no))
                 THEN "False"
                 ELSE LET referenced_content == At(lines, reference.line_no).content
                      IN  Bool(\/ ExprEq(referenced_content, line.content.left)
                               \/ ExprEq(referenced_content, line.content.right))

can_add_or_elim(line) ==
    IF Len(line.references) # 3 THEN "False"
    ELSE
    LET ref1 == line.references[1]
        ref2 == line.references[2]
        ref3 == line.references[3]
    IN  IF \/ ref1.discharge # None
           \/ ref2.discharge \in {None, Vacuous}
           \/ ref3.discharge \in {None, Vacuous}
        THEN "False"
        ELSE IF \/ ~InRange(lines, ref1.line_no)
                \/ ~InRange(lines, ref2.line_no)
                \/ ~InRange(lines, ref3.line_no)
        THEN "IndexError"
        ELSE IF \/ ~InRange(assumption_map, ref2.discharge.index)
                \/ ~InRange(assumption_map, ref3.discharge.index)
        THEN "IndexError"
        ELSE LET referenced1 == At(lines, ref1.line_no)
                 referenced2 == At(lines, ref2.line_no)
                 referenced3 == At(lines, ref3.line_no)
                 discharge_cont2 == At(assumption_map, ref2.discharge.index)
                 discharge_cont3 == At(assumption_map, ref3.discharge.index)
                 referenced1_content == referenced1.content
             IN  IF ~isinstance(referenced1_content, "OrExpr") THEN "False"
                 ELSE IF /\ ~(/\ ExprEq(discharge_cont2, referenced1_content.left)
                              /\ ExprEq(discharge_cont3, referenced1_content.right))
                         /\ ~(/\ ExprEq(discharge_cont2, referenced1_content.right)
                              /\ ExprEq(discharge_cont2, referenced1_content.left))
                 THEN "False"
                 ELSE IF ~(/\ ExprEq(referenced2.content, line.content)
                           /\ ExprEq(referenced3.content, line.content))
                 THEN "False"
                 ELSE IF line.assumptions #
                            (referenced1.assumptions \cup referenced2.assumptions
                                \cup referenced3.assumptions)
                            \ {ref2.discharge.index, ref3.discharge.index}
                 THEN "False"
                 ELSE "True"

can_add_implies_intro(line) ==
    IF Len(line.references) # 1 THEN "False"
    ELSE
    LET reference == line.references[1]
        line_content == line.content
    IN  IF reference.discharge = None THEN "False"
        ELSE IF ~InRange(lines, reference.line_no) THEN "IndexError"
        ELSE LET referenced == At(lines, reference.line_no)
             IN  IF ~isinstance(line_content, "ImpExpr") THEN "False"
                 ELSE IF reference.discharge = Vacuous
                 THEN IF line.assumptions # referenced.assumptions THEN "False"
                      ELSE Bool(ExprEq(line_content.right, referenced.content))
                 ELSE IF line.assumptions # referenced.assumptions \ {reference.discharge.index}
                 THEN "False"
                 ELSE IF ~ExprEq(line_content.right, referenced.content) THEN "False"
                 ELSE IF ~InRange(assumption_map, reference.discharge.index) THEN "IndexError"
                 ELSE Bool(ExprEq(line_content.left,
                                  At(assumption_map, reference.discharge.index)))

can_add_implies_elim(line) ==
    LET correct_references ==
            /\ Len(line.references) = 2
            /\ \A i \in 1..2 : line.references[i].discharge = None
    IN  IF ~correct_references THEN "False"
        ELSE LET reference1 == line.references[1].line_no
                 reference2 == line.references[2].line_no
             IN  IF ~InRange(lines, reference1) \/ ~InRange(lines, reference2)
                 THEN "IndexError"
                 ELSE LET referenced1 == At(lines, reference1)
                          referenced2 == At(lines, reference2)
                          content1 == referenced1.content
                          content2 == referenced2.content
                          imp_cont == IF isinstance(content1, "ImpExpr")
                                      THEN content1 ELSE content2
                          other_cont == IF isinstance(content1, "ImpExpr")
                                        THEN content2 ELSE content1
                      IN  IF line.assumptions #
                                 referenced1.assumptions \cup referenced2.assumptions
                          THEN "False"
                          ELSE IF /\ ~isinstance(content1, "ImpExpr")
                                  /\ ~isinstance(content2, "ImpExpr")
                          THEN "False"
                          ELSE IF ~ExprEq(imp_cont.left, other_cont) THEN "False"
                          ELSE Bool(ExprEq(imp_cont.right, line.content))

can_add_raa(line) ==
    IF Len(line.references) # 2 THEN "False"
    ELSE
    LET reference1 == line.references[1]
        reference2 == line.references[2]
        line_content == line.content
    IN  IF reference1.discharge # None THEN "False"
        ELSE IF ~InRange(lines, reference1.line_no) \/ ~InRange(lines, reference2.line_no)
        THEN "IndexError"
        ELSE LET referenced1 == At(lines, reference1.line_no)
                 referenced2 == At(lines, reference2.line_no)
                 unioned_assumptions == referenced1.assumptions \cup referenced2.assumptions
             IN  IF ~isinstance(line_content, "NotExpr") THEN "False"
                 ELSE IF reference2.discharge = Vacuous
                 THEN Bool(line.assumptions = unioned_assumptions)
                 ELSE IF reference2.discharge = None
                 \* unioned_assumptions - {None} removes nothing, and
                 \* self.assumption_map[None] is a TypeError
                 THEN IF line.assumptions # unioned_assumptions THEN "False"
                      ELSE "TypeError"
                 ELSE IF line.assumptions # unioned_assumptions \ {reference2.discharge.index}
                 THEN "False"
                 ELSE IF ~InRange(assumption_map, reference2.discharge.index)
                 THEN "IndexError"
                 ELSE Bool(ExprEq(line_content.content,
                                  At(assumption_map, reference2.discharge.index)))

\* self.can_add_funcs[line.rule_used.value](line)
can_add_line(line) ==
    CASE line.rule_used = "ASSUMPTION"    -> can_add_assumption(line)
      [] line.rule_used = "AND_ELIM"      -> can_add_and_elim(line)
      [] line.rule_used = "AND_INTRO"     -> can_add_and_intro(line)
      [] line.rule_used = "DNE"           -> can_add_dne(line)
      [] line.rule_used = "NOT_ELIM"      -> can_add_not_elim(line)
      [] line.rule_used = "NOT_INTRO"     -> can_add_not_intro(line)
      [] line.rule_used = "OR_INTRO"      -> can_add_or_intro(line)
      [] line.rule_used = "OR_ELIM"       -> can_add_or_elim(line)
      [] line.rule_used = "IMPLIES_INTRO" -> can_add_implies_intro(line)
      [] line.rule_used = "IMPLIES_ELIM"  -> can_add_implies_elim(line)
      [] line.rule_used = "RAA"           -> can_add_raa(line)

(***************************************************************************)
(* Proof.__init__, Proof.try_add_line and Proof.is_complete.  `result` is  *)
(* what the last call handed to its caller: "None" before any call and     *)
(* once the caller has taken the value, otherwise the returned boolean or  *)
(* the raised exception; `called` is the method that call was made to.     *)
(***************************************************************************)
ProofInit(premises, goal_content) ==
    /\ lines = [i \in 1..Len(premises) |->
                    ProofLine({i - 1}, premises[i], <<>>, "ASSUMPTION")]
    /\ assumption_map = premises
    /\ goal = Goal(0..(Len(premises) - 1), premises, goal_content)

\* try_add_line with the assumption map extended before the line is checked
try_add_line_early_map(line) ==
    LET can_add == can_add_line(line)
    IN  /\ result' = can_add
        /\ assumption_map' = IF line.rule_used = "ASSUMPTION"
                              THEN Append(assumption_map, line.content)
                              ELSE assumption_map
        /\ lines' = IF can_add = "True" THEN Append(lines, line) ELSE lines
        /\ UNCHANGED goal

\* try_add_line with the assumption map extended for every accepted line
try_add_line_any_rule(line) ==
    LET can_add == can_add_line(line)
    IN  /\ result' = can_add
        /\ IF can_add = "True"
           THEN /\ assumption_map' = Append(assumption_map, line.content)
                /\ lines' = Append(lines, line)
           ELSE UNCHANGED <<lines, assumption_map>>
        /\ UNCHANGED goal

try_add_line(line) ==
    LET can_add == can_add_line(line)
    IN  /\ result' = can_add
        /\ IF can_add = "True"
           THEN /\ assumption_map' = IF line.rule_used = "ASSUMPTION"
                                     THEN Append(assumption_map, line.content)
                                     ELSE assumption_map
                /\ lines' = Append(lines, line)
           ELSE UNCHANGED <<lines, assumption_map>>
        /\ UNCHANGED goal

\* is_complete comparing the contents only
is_complete_content_only ==
    IF Len(lines) = 0 THEN "False"
    ELSE LET last_line == lines[Len(lines)]
         IN  Bool(ExprEq(last_line.content, goal.content))

is_complete ==
    IF Len(lines) = 0 THEN "False"
    ELSE LET last_line == lines[Len(lines)]
         IN  Bool(/\ ExprEq(last_line.content, goal.content)
                  /\ last_line.assumptions = goal.assumptions)

(***************************************************************************)
(* Rendering: Atom.__str__, NotExpr.__str__ and BinaryExpr.__str__.        *)
(***************************************************************************)
Arrow == "→"

symbol(e) ==
    CASE e.cls = "NotExpr" -> "~"
      [] e.cls = "OrExpr" -> "v"
      [] e.cls = "AndExpr" -> "^"
      [] e.cls = "ImpExpr" -> Arrow

priority(e) ==
    CASE e.cls = "NotExpr" -> 60
      [] e.cls = "OrExpr" -> 20
      [] e.cls = "AndExpr" -> 50
      [] e.cls = "ImpExpr" -> 5

IsOperatorExpr(e) == e.cls = "NotExpr" \/ e.cls \in BinaryClasses

RECURSIVE Str(_)
\* f"({child})" when the child is an operator of lower priority than the
\* parent, else the child's own string
StrInside(parent, child) ==
    IF IsOperatorExpr(child) /\ priority(child) < priority(parent)
    THEN <<"(">> \o Str(child) \o <<")">>
    ELSE Str(child)

Str(e) ==
    IF isinstance(e, "Atom") THEN <<e.name>>
    ELSE IF e.cls = "NotExpr" THEN <<"~">> \o StrInside(e, e.content)
    ELSE StrInside(e, e.left) \o <<" ", symbol(e), " ">> \o StrInside(e, e.right)

(***************************************************************************)
(* Parsing: infixToPrefix with extractGroup, then parseExpr.  A call that  *)
(* pops or indexes an empty list raises IndexError.                        *)
(***************************************************************************)
isBinaryOperator(c) == c \in {Arrow, "v", "^"}

isUnaryOperator(c) == c = "~"

getPriority(x) ==
    CASE x = Arrow -> 1
      [] x = "v" -> 2
      [] x = "^" -> 3
      [] x = "~" -> 4
      [] OTHER -> 0

Top(stack) == stack[Len(stack)]

Pop(stack) == SubSeq(stack, 1, Len(stack) - 1)

Raised == [raised |-> TRUE]

Stacks(operators, operands) ==
    [raised |-> FALSE, operators |-> operators, operands |-> operands]

\* extractGroup followed by the caller's operands.append(tmp); the caller
\* has found operators non-empty
extractGroup(operators, operands) ==
    LET op == Top(operators)
    IN  IF isUnaryOperator(op)
        THEN IF Len(operands) = 0
             THEN Stacks(Pop(operators), Append(operands, <<op>>))
             ELSE Stacks(Pop(operators),
                         Append(Pop(operands), <<op>> \o Top(operands)))
        ELSE IF Len(operands) < 2 THEN Raised
             ELSE LET op1 == Top(operands)
                      op2 == Top(Pop(operands))
                  IN  Stacks(Pop(operators),
                             Append(Pop(Pop(operands)), <<op>> \o op2 \o op1))

\* on ')': reduce down to the opening bracket, then pop it
RECURSIVE CloseBracket(_)
CloseBracket(st) ==
    IF st.raised THEN Raised
    ELSE IF Len(st.operators) > 0 /\ Top(st.operators) # "("
         THEN CloseBracket(extractGroup(st.operators, st.operands))
         ELSE IF Len(st.operators) = 0 THEN Raised
              ELSE Stacks(Pop(st.operators), st.operands)

\* on a binary operator: reduce the operators of equal or higher priority
RECURSIVE ReduceHigher(_, _)
ReduceHigher(cur, st) ==
    IF st.raised THEN Raised
    ELSE IF Len(st.operators) > 0 /\ getPriority(cur) <= getPriority(Top(st.operators))
         THEN ReduceHigher(cur, extractGroup(st.operators, st.operands))
         ELSE st

\* after the scan: reduce until no operator is left
RECURSIVE ReduceAll(_)
ReduceAll(st) ==
    IF st.raised THEN Raised
    ELSE IF Len(st.operators) > 0
         THEN ReduceAll(extractGroup(st.operators, st.operands))
         ELSE st

\* the scan of infix from its character numbered i (0-indexed)
RECURSIVE Scan(_, _, _)
Scan(infix, i, st) ==
    IF st.raised THEN Raised
    ELSE IF ~(i < Len(infix)) THEN st
    ELSE LET cur == At(infix, i)
         IN  IF cur = "("
             THEN Scan(infix, i + 1, Stacks(Append(st.operators, cur), st.operands))
             ELSE IF cur = ")"
             THEN Scan(infix, i + 1, CloseBracket(st))
             ELSE IF ~(isBinaryOperator(cur) \/ isUnaryOperator(cur))
             THEN Scan(infix, i + 1, Stacks(st.operators, Append(st.operands, <<cur>>)))
             ELSE LET reduced == IF isBinaryOperator(cur) THEN ReduceHigher(cur, st)
                                 ELSE st
                  IN  IF reduced.raised THEN Raised
                      ELSE Scan(infix, i + 1,
                                Stacks(Append(reduced.operators, cur), reduced.operands))

\* the prefix string in field value, or Raised
infixToPrefix(infix) ==
    LET st == ReduceAll(Scan(infix, 0, Stacks(<<>>, <<>>)))
    IN  IF st.raised THEN Raised
        ELSE IF Len(st.operands) = 0 THEN Raised
        ELSE [raised |-> FALSE, value |-> Top(st.operands)]

\* str.replace: the occurrences of old, left to right and not overlapping
RECURSIVE replace(_, _, _)
replace(s, old, new) ==
    IF Len(s) < Len(old) THEN s
    ELSE IF SubSeq(s, 1, Len(old)) = old
         THEN new \o replace(SubSeq(s, Len(old) + 1, Len(s)), old, new)
         ELSE <<Head(s)>> \o replace(Tail(s), old, new)

\* what parseExpr hands back when it is not an Expression
ReturnsNone == [cls |-> "NoneType"]

RaisesIndexError == [cls |-> "IndexError"]

\* an entry of symbolToCls as the first element of a frame
Cls(name) == [cls |-> "type", name |-> name]

symbolToCls(char) ==
    CASE char = "~" -> Cls("NotExpr")
      [] char = "^" -> Cls("AndExpr")
      [] char = "v" -> Cls("OrExpr")
      [] char = Arrow -> Cls("ImpExpr")

Construct(operator, args) ==
    CASE operator.name = "NotExpr" -> NotExpr(args[1])
      [] operator.name = "AndExpr" -> AndExpr(args[1], args[2])
      [] operator.name = "OrExpr" -> OrExpr(args[1], args[2])
      [] operator.name = "ImpExpr" -> ImpExpr(args[1], args[2])

\* the `while True` loop of parseExpr: returned tells whether it left the
\* function with compiled
RECURSIVE Collapse(_)
Collapse(stack) ==
    LET last == Top(stack)
        operator == last[1]
    IN  IF operator.cls # "type" THEN [returned |-> FALSE, stack |-> stack]
        ELSE IF \/ operator.name \in BinaryClasses /\ Len(last) = 3
                \/ operator.name = "NotExpr" /\ Len(last) = 2
        THEN LET compiled == Construct(operator, Tail(last))
                 popped == Pop(stack)
             IN  IF Len(popped) > 0
                 THEN Collapse(Append(Pop(popped), Append(Top(popped), compiled)))
                 ELSE [returned |-> TRUE, compiled |-> compiled]
        ELSE [returned |-> FALSE, stack |-> stack]

\* the `for char in prefix_expr` loop from the character numbered i
RECURSIVE Compile(_, _, _)
Compile(prefix_expr, i, stack) ==
    IF ~(i < Len(prefix_expr)) THEN ReturnsNone
    ELSE LET char == At(prefix_expr, i)
             pushed == IF char \in {"~", "^", "v", Arrow}
                       THEN Append(stack, <<symbolToCls(char)>>)
                       ELSE IF Len(stack) = 0
                       THEN Append(stack, <<Atom(char)>>)
                       ELSE Append(Pop(stack), Append(Top(stack), Atom(char)))
             after == Collapse(pushed)
         IN  IF after.returned THEN after.compiled
             ELSE Compile(prefix_expr, i + 1, after.stack)

parseExpr(string) ==
    IF Len(string) = 0 THEN ReturnsNone
    ELSE LET cleaned == replace(replace(replace(string, <<"-", "-", ">">>, <<Arrow>>),
                                        <<"-", ">">>, <<Arrow>>),
                                <<" ">>, <<>>)
             prefix_expr == infixToPrefix(cleaned)
         IN  IF prefix_expr.raised THEN RaisesIndexError
             ELSE Compile(prefix_expr.value, 0, <<>>)

(***************************************************************************)
(* Bounds of the model and the inputs a client may offer.                  *)
(***************************************************************************)
MaxLines == 3

p == Atom("p")

q == Atom("q")

\* the formulas a candidate line may assert
Exprs == {p, q, Contr, NotExpr(p), NotExpr(NotExpr(p)), AndExpr(p, q),
          OrExpr(p, q), ImpExpr(p, q), ImpExpr(ImpExpr(p, q), q)}

\* <<premises, goal>> pairs a Proof is constructed from
Scenarios == {<<<<Contr>>, p>>,
              <<<<p, q>>, AndExpr(p, q)>>,
              <<<<NotExpr(NotExpr(p)), q>>, p>>,
              <<<<p, NotExpr(p)>>, Contr>>,
              <<<<Contr, p>>, NotExpr(p)>>,
              <<<<ImpExpr(p, q), ImpExpr(ImpExpr(p, q), q)>>, q>>,
              <<<<OrExpr(p, q), q, p>>, q>>}

\* line numbers up to the candidate's own, discharges up to one past the map
LineNos == 0..Len(lines)

IndexDischarges == {Index(i) : i \in 0..Len(assumption_map)}

Discharges == {None, Vacuous} \cup IndexDischarges

Refs == {Reference(n, d) : n \in LineNos, d \in Discharges}

Arity(rule) ==
    CASE rule = "ASSUMPTION" -> 0
      [] rule \in {"AND_ELIM", "DNE", "NOT_INTRO", "OR_INTRO", "IMPLIES_INTRO"} -> 1
      [] rule \in {"AND_INTRO", "NOT_ELIM", "IMPLIES_ELIM", "RAA"} -> 2
      [] rule = "OR_ELIM" -> 3

\* reference lists of a given length; those of length three have the
\* discharges of a case analysis (none, then two indices)
RefListsOfLen(k) ==
    CASE k = 0 -> {<<>>}
      [] k = 1 -> {<<r>> : r \in Refs}
      [] k = 2 -> {<<r1, r2>> : r1 \in Refs, r2 \in Refs}
      [] k = 3 -> {<<Reference(n1, None), Reference(n2, d2), Reference(n3, d3)>> :
                        n1 \in LineNos, n2 \in LineNos, n3 \in LineNos,
                        d2 \in IndexDischarges, d3 \in IndexDischarges}

\* the rule's own number of references, and the short lists
RefLists(rule) == RefListsOfLen(Arity(rule)) \cup RefListsOfLen(0) \cup RefListsOfLen(1)

Cited(refs) ==
    UNION {At(lines, refs[i].line_no).assumptions :
               i \in {j \in 1..Len(refs) : InRange(lines, refs[j].line_no)}}

Discharged(refs) ==
    {refs[i].discharge.index : i \in {j \in 1..Len(refs) : refs[j].discharge.kind = "int"}}

\* assumption sets built from the cited lines, the discharged indices, the
\* next fresh index and the index after it
AssumptionChoices(refs) ==
    {Cited(refs), Cited(refs) \ Discharged(refs),
     Cited(refs) \cup {Len(assumption_map)}, {Len(assumption_map)},
     {Len(assumption_map) + 1}, Cited(refs) \cup Discharged(refs), {}}

\* parseExpr has not been called
NothingParsed ==
    /\ expr = ReturnsNone
    /\ text = <<>>
    /\ parsed = ReturnsNone

Init ==
    /\ \E s \in Scenarios : ProofInit(s[1], s[2])
    /\ result = "None"
    /\ called = "None"
    /\ NothingParsed

Offer ==
    /\ result = "None"
    /\ Len(lines) < MaxLines
    /\ \E ru \in Rule : \E refs \in RefLists(ru) :
         \E a \in AssumptionChoices(refs), c \in Exprs :
           try_add_line(ProofLine(a, c, refs, ru))
    /\ called' = "try_add_line"
    /\ UNCHANGED <<expr, text, parsed>>

\* the caller takes the returned value (or catches the exception)
Return ==
    /\ result # "None"
    /\ result' = "None"
    /\ called' = "None"
    /\ UNCHANGED <<lines, assumption_map, goal, expr, text, parsed>>

Next == Offer \/ Return

Spec == Init /\ [][Next]_vars

(***************************************************************************)
(* Proofs offered lines and asked whether they are complete, from          *)
(* constructions that include the empty premise list.                      *)
(***************************************************************************)
MaxGoalLines == 2

GoalScenarios == {<<<<>>, p>>,
                  <<<<p>>, p>>,
                  <<<<Contr>>, NotExpr(p)>>,
                  <<<<p, q>>, q>>}

InitGoal ==
    /\ \E s \in GoalScenarios : ProofInit(s[1], s[2])
    /\ result = "None"
    /\ called = "None"
    /\ NothingParsed

OfferGoal ==
    /\ result = "None"
    /\ Len(lines) < MaxGoalLines
    /\ \E ru \in Rule : \E refs \in RefLists(ru) :
         \E a \in AssumptionChoices(refs), c \in Exprs :
           try_add_line(ProofLine(a, c, refs, ru))
    /\ called' = "try_add_line"
    /\ UNCHANGED <<expr, text, parsed>>

IsComplete ==
    /\ result = "None"
    /\ result' = is_complete
    /\ called' = "is_complete"
    /\ UNCHANGED <<lines, assumption_map, goal, expr, text, parsed>>

NextGoal == OfferGoal \/ IsComplete \/ Return

SpecGoal == InitGoal /\ [][NextGoal]_vars

(***************************************************************************)
(* Strings given to parseExpr: the renderings of expressions, and short    *)
(* strings over the characters of the syntax.  No Proof is involved.       *)
(***************************************************************************)
MaxDepth == 2

MaxTextLen == 4

ParseAtoms == {p, q, Atom("r")}

\* expressions of at most the given depth in which every binary node has
\* an atom as one of its operands
RECURSIVE ExprsOfDepth(_)
ExprsOfDepth(d) ==
    IF d = 0 THEN ParseAtoms
    ELSE LET S == ExprsOfDepth(d - 1)
         IN  S \cup {NotExpr(e) : e \in S}
               \cup {AndExpr(a, b) : a \in S, b \in ParseAtoms}
               \cup {AndExpr(a, b) : a \in ParseAtoms, b \in S}
               \cup {OrExpr(a, b) : a \in S, b \in ParseAtoms}
               \cup {OrExpr(a, b) : a \in ParseAtoms, b \in S}
               \cup {ImpExpr(a, b) : a \in S, b \in ParseAtoms}
               \cup {ImpExpr(a, b) : a \in ParseAtoms, b \in S}

Chars == {"p", "q", "~", "^", "(", ")"}

\* the strings of at most MaxTextLen characters, and some with the spaces
\* and the arrow spellings parseExpr rewrites
Texts ==
    UNION {[1..n -> Chars] : n \in 0..MaxTextLen}
      \cup {<<"p", "-", ">", "q">>, <<"p", "-", "-", ">", "q">>,
            <<"p", " ", "v", " ", "q">>, <<"p", Arrow, "q">>,
            <<" ">>, <<"-", ">">>}

InitParse ==
    /\ lines = <<>>
    /\ assumption_map = <<>>
    /\ goal = ReturnsNone
    /\ result = "None"
    /\ called = "None"
    /\ NothingParsed

\* parseExpr(str(e)) for an expression e
ParseRendered ==
    /\ called = "None"
    /\ \E e \in ExprsOfDepth(MaxDepth) :
         /\ expr' = e
         /\ text' = Str(e)
         /\ parsed' = parseExpr(Str(e))
    /\ called' = "parseExpr"
    /\ UNCHANGED <<lines, assumption_map, goal, result>>

\* parseExpr(t) for a string t
ParseText ==
    /\ called = "None"
    /\ \E t \in Texts :
         /\ expr' = ReturnsNone
         /\ text' = t
         /\ parsed' = parseExpr(t)
    /\ called' = "parseExpr"
    /\ UNCHANGED <<lines, assumption_map, goal, result>>

\* the caller takes the parsed value (or catches the exception)
ReturnParsed ==
    /\ called = "parseExpr"
    /\ called' = "None"
    /\ expr' = ReturnsNone
    /\ text' = <<>>
    /\ parsed' = ReturnsNone
    /\ UNCHANGED <<lines, assumption_map, goal, result>>

NextParse == ParseRendered \/ ParseText \/ ReturnParsed

SpecParse == InitParse /\ [][NextParse]_vars

(***************************************************************************)
(* Properties.                                                             *)
(***************************************************************************)
Last == lines[Len(lines)]

Accepted(rules) ==
    called = "try_add_line" /\ result = "True" /\ Last.rule_used \in rules

\* the content and the assumption set of the line numbered n
C(n) == At(lines, n).content

A(n) == At(lines, n).assumptions

LineIndices == 0..(Len(lines) - 1)

MapIndices == 0..(Len(assumption_map) - 1)

\* C1: a call of try_add_line that returns False leaves the line sequence,
\* the assumption map and the goal exactly as they were.
C1_RejectedNoEffect ==
    [][result' = "False" =>
          /\ lines' = lines
          /\ assumption_map' = assumption_map
          /\ goal' = goal]_vars

\* a call on a Proof that holds lines has just returned False
C1_Witness == called = "try_add_line" /\ result = "False" /\ Len(lines) > 0

\* C2: for NOT_INTRO, IMPLIES_INTRO, RAA and OR_ELIM, a line with a
\* reference whose index discharge is not in the cited line's assumption
\* set is never accepted, so no such line is in the sequence.
C2_ForeignDischargeRejected ==
    \A i \in 1..Len(lines) :
        lines[i].rule_used \in {"NOT_INTRO", "IMPLIES_INTRO", "RAA", "OR_ELIM"} =>
            \A j \in 1..Len(lines[i].references) :
                LET ref == lines[i].references[j]
                IN  ref.discharge.kind = "int" => ref.discharge.index \in A(ref.line_no)

\* C3: an OR_ELIM candidate of the right shape, content and assumption set
\* is accepted exactly when the two discharged assumptions are the two
\* branches of the cited disjunction, in either order.
C3_OrElimSymmetric ==
    \A n1 \in LineIndices, n2 \in LineIndices, n3 \in LineIndices :
      \A idx2 \in MapIndices, idx3 \in MapIndices :
        (isinstance(C(n1), "OrExpr") /\ ExprEq(C(n2), C(n3))) =>
            LET line == ProofLine((A(n1) \cup A(n2) \cup A(n3)) \ {idx2, idx3}, C(n2),
                                  <<Reference(n1, None), Reference(n2, Index(idx2)),
                                    Reference(n3, Index(idx3))>>, "OR_ELIM")
                d2 == At(assumption_map, idx2)
                d3 == At(assumption_map, idx3)
            IN  can_add_line(line) = "True" <=>
                    \/ ExprEq(d2, C(n1).left) /\ ExprEq(d3, C(n1).right)
                    \/ ExprEq(d2, C(n1).right) /\ ExprEq(d3, C(n1).left)

\* C4: an OR_INTRO candidate with one reference is accepted exactly when
\* the reference has no discharge, the assumption set is the cited line's
\* and the content is a disjunction with the cited content as a branch.
C4_OrIntroAccepts ==
    \A n \in LineIndices, d \in {None, Vacuous}, c \in Exprs :
      \A a \in {A(n), A(n) \cup {Len(assumption_map)}} :
        can_add_line(ProofLine(a, c, <<Reference(n, d)>>, "OR_INTRO")) = "True" <=>
            /\ d = None
            /\ a = A(n)
            /\ isinstance(c, "OrExpr")
            /\ (ExprEq(C(n), c.left) \/ ExprEq(C(n), c.right))

\* C5: an IMPLIES_ELIM candidate with two references without discharge and
\* the union of their assumption sets is accepted exactly when one cited
\* content is an implication from the other cited content to the
\* candidate's content, whichever of the two references it is.
C5_ImpliesElimEitherOrder ==
    \A n1 \in LineIndices, n2 \in LineIndices, c \in Exprs :
        LET line == ProofLine(A(n1) \cup A(n2), c,
                              <<Reference(n1, None), Reference(n2, None)>>, "IMPLIES_ELIM")
            Eliminates(i, j) ==
                /\ isinstance(C(i), "ImpExpr")
                /\ ExprEq(C(i).left, C(j))
                /\ ExprEq(C(i).right, c)
        IN  can_add_line(line) = "True" <=> (Eliminates(n1, n2) \/ Eliminates(n2, n1))

\* C6: whatever the rule, a candidate with a reference to its own line
\* number or a later one is rejected with a False result.
C6_ForwardReferenceRejected ==
    \A ru \in Rule : \A refs \in RefLists(ru) :
        (\E j \in 1..Len(refs) : refs[j].line_no >= Len(lines)) =>
            \A a \in AssumptionChoices(refs), c \in Exprs :
                can_add_line(ProofLine(a, c, refs, ru)) = "False"

\* C7: the assumption map has as many entries as the sequence has lines of
\* the Assumption rule.
C7_MapLengthIsAssumptionCount ==
    Len(assumption_map) =
        Cardinality({i \in 1..Len(lines) : lines[i].rule_used = "ASSUMPTION"})

\* an Assumption line was accepted after construction, next to other lines
C7_Witness ==
    /\ Accepted({"ASSUMPTION"})
    /\ Len(assumption_map) > Len(goal.assumption_map)

\* C8: every line's assumption set is within the index range of the
\* assumption map.
C8_AssumptionsWithinMap ==
    \A i \in 1..Len(lines) : lines[i].assumptions \subseteq MapIndices

\* a line that discharges was accepted
C8_Witness ==
    /\ Accepted({"NOT_INTRO", "IMPLIES_INTRO", "RAA"})
    /\ Last.references[Len(Last.references)].discharge # None

\* C9: an accepted NOT_INTRO or IMPLIES_INTRO line with an index discharge
\* has exactly one assumption fewer than the line it cites.
C9_DischargeShrinksByOne ==
    \A i \in 1..Len(lines) :
        (/\ lines[i].rule_used \in {"NOT_INTRO", "IMPLIES_INTRO"}
         /\ lines[i].references[1].discharge.kind = "int") =>
            Cardinality(lines[i].assumptions) =
                Cardinality(A(lines[i].references[1].line_no)) - 1

\* C10: right after an AND_INTRO line over references R1, R2 is accepted,
\* can_add_and_elim accepts a line citing it, with its assumption set,
\* whose content is C(R1), and one whose content is C(R2).
C10_AndIntroThenElim ==
    Accepted({"AND_INTRO"}) =>
        \A j \in 1..2 :
            can_add_and_elim(ProofLine(Last.assumptions, C(Last.references[j].line_no),
                                       <<Reference(Len(lines) - 1, None)>>, "AND_ELIM"))
                = "True"

\* an AND_INTRO line joining two different formulas was just accepted
C10_Witness ==
    /\ Accepted({"AND_INTRO"})
    /\ C(Last.references[1].line_no) # C(Last.references[2].line_no)

\* C11: is_complete returns False on an empty line sequence, and otherwise
\* returns True exactly when the last line's assumption set is the set of
\* the initial premises' indices and its content is the goal's content.
C11_IsCompleteMeansGoalReached ==
    called = "is_complete" =>
        /\ result \in {"True", "False"}
        /\ result = "True" <=>
               /\ Len(lines) > 0
               /\ Last.assumptions = 0..(Len(goal.assumption_map) - 1)
               /\ Last.content = goal.content

\* is_complete has returned False on a proof whose line before the last
\* one, once the last line itself, reached the goal
C11_Witness ==
    /\ called = "is_complete"
    /\ result = "False"
    /\ Len(lines) > Len(goal.assumption_map)
    /\ Len(lines) >= 2
    /\ lines[Len(lines) - 1].assumptions = 0..(Len(goal.assumption_map) - 1)
    /\ lines[Len(lines) - 1].content = goal.content

IsExpression(x) == x.cls \notin {"NoneType", "IndexError"}

\* C12: for an expression built from single-character atoms, NotExpr,
\* AndExpr, OrExpr and ImpExpr, parsing its rendering gives an expression
\* equal to it: parseExpr(str(expr)) == expr.
C12_RoundTrip ==
    (called = "parseExpr" /\ IsExpression(expr)) =>
        IsExpression(parsed) /\ ExprEq(parsed, expr)

IsOperandChar(c) == c \notin {"(", ")", "~", "^", "v", Arrow, " ", "-", ">"}

\* the number of '(' less the number of ')' in the first n characters
RECURSIVE BracketDepth(_, _)
BracketDepth(t, n) ==
    IF n = 0 THEN 0
    ELSE BracketDepth(t, n - 1)
           + (IF t[n] = "(" THEN 1 ELSE IF t[n] = ")" THEN -1 ELSE 0)

Unbalanced(t) ==
    \/ BracketDepth(t, Len(t)) # 0
    \/ \E n \in 1..Len(t) : BracketDepth(t, n) < 0

MissingOperand(t) ==
    \E i \in 1..Len(t) :
        \/ /\ isBinaryOperator(t[i])
           /\ \/ i = 1
              \/ i = Len(t)
              \/ isBinaryOperator(t[i - 1]) \/ isUnaryOperator(t[i - 1]) \/ t[i - 1] = "("
              \/ isBinaryOperator(t[i + 1]) \/ t[i + 1] = ")"
        \/ /\ isUnaryOperator(t[i])
           /\ \/ i = Len(t)
              \/ isBinaryOperator(t[i + 1]) \/ t[i + 1] = ")"

AdjacentOperands(t) ==
    \E i \in 1..(Len(t) - 1) : IsOperandChar(t[i]) /\ IsOperandChar(t[i + 1])

Malformed(t) ==
    t = <<>> \/ Unbalanced(t) \/ MissingOperand(t) \/ AdjacentOperands(t)

\* C13: for a string that is empty, has unbalanced parentheses, has an
\* operator with a missing operand or has two adjacent operand characters,
\* parseExpr returns None: it neither returns an Expression nor raises.
C13_MalformedIsFailure ==
    (called = "parseExpr" /\ Malformed(text)) => parsed = ReturnsNone

\* the truth of an expression under the assignment that makes exactly the
\* atoms named in trueAtoms true; Bottom is false
RECURSIVE Holds(_, _)
Holds(e, trueAtoms) ==
    IF e.cls = "Contr" THEN FALSE
    ELSE IF e.cls = "Atom" THEN e.name \in trueAtoms
    ELSE IF e.cls = "NotExpr" THEN ~Holds(e.content, trueAtoms)
    ELSE IF e.cls = "AndExpr" THEN Holds(e.left, trueAtoms) /\ Holds(e.right, trueAtoms)
    ELSE IF e.cls = "OrExpr" THEN Holds(e.left, trueAtoms) \/ Holds(e.right, trueAtoms)
    ELSE Holds(e.left, trueAtoms) => Holds(e.right, trueAtoms)

Assignments == SUBSET {p.name, q.name}

\* C14: every line of the sequence is semantically justified: under every
\* truth assignment that makes the assumption-map formulas of the line's
\* assumption set true, the line's content is true.
C14_AcceptedLinesSound ==
    \A i \in 1..Len(lines) : \A trueAtoms \in Assignments :
        (\A j \in lines[i].assumptions :
             InRange(assumption_map, j) /\ Holds(At(assumption_map, j), trueAtoms))
            => Holds(lines[i].content, trueAtoms)

====
